---- MODULE Spec2Model ----
(***************************************************************************)
(* Model of the feature preparation and scaling pipeline:                  *)
(*   src/PrepareData.py  class DataPreparer  (the Aggregator)              *)
(*   src/GetData.py      class DataScaler    (the Scaler/Cleaner)          *)
(*                                                                         *)
(* A table (pandas DataFrame) is a record                                  *)
(*     [cols |-> sequence of column names, rows |-> sequence of rows]      *)
(* and a row is a function from the column names to cells.  A cell is a    *)
(* record: a number Num(v), a missing value NaN, an exact fraction, an     *)
(* infinity, or a standardised value (a sign and the reduced square).      *)
(***************************************************************************)
EXTENDS Integers, Sequences, FiniteSets, TLC

VARIABLES
    \* ---- DataPreparer (src/PrepareData.py) ----
    mode_train,            \* DataPreparer.train
    colstonotconsider,     \* DataPreparer.colstonotconsider
    data_home_team,        \* DataPreparer.data_home_team
    data_home_players,     \* DataPreparer.data_home_players
    data_away_team,        \* DataPreparer.data_away_team
    data_away_players,     \* DataPreparer.data_away_players
    data_match,            \* DataPreparer.data_match
    y_train,               \* file y_train.csv, the outcome table
    data,                  \* DataPreparer.data
    players_prepared,      \* value returned by prepare_player_data
    ppc,                   \* position / outcome of the DataPreparer call
    \* ---- DataScaler (src/GetData.py) ----
    prepared_data_train,   \* file data/prepared_data_train.parquet
    prepared_data_test,    \* file data/prepared_data_test.parquet
    train,                 \* DataScaler.train
    sdata,                 \* DataScaler.data
    feature_columns,       \* DataScaler.feature_columns
    train_data,            \* the reference table handed to scale_data
    spc                    \* position / outcome of the DataScaler call

pvars == <<mode_train, colstonotconsider, data_home_team, data_home_players,
           data_away_team, data_away_players, data_match, y_train, data,
           players_prepared, ppc>>
svars == <<prepared_data_train, prepared_data_test, train, sdata,
           feature_columns, train_data, spc>>
vars == <<pvars, svars>>

\* Python's None
None == [t |-> "None"]

-----------------------------------------------------------------------------
(* Cells and arithmetic                                                    *)

NaN == [t |-> "nan"]
Num(v) == [t |-> "num", v |-> v]
IsNum(x) == x.t = "num"

\* F applied to the value of x: x is evaluated once, as a local variable
\* assigned once and read many times is
Bind(x, F(_)) == CHOOSE r \in {F(v) : v \in {x}} : TRUE

Abs(a) == IF a < 0 THEN -a ELSE a
Sign(a) == IF a < 0 THEN -1 ELSE IF a > 0 THEN 1 ELSE 0

\* The recursions on numbers are functions: a function is applied to the
\* values of its arguments.
GcdOf[a \in Nat, b \in Nat] == IF b = 0 THEN a ELSE GcdOf[b, a % b]
GCD(a, b) == GcdOf[a, b]

LcmOf[a \in Nat, b \in Nat] == (a * b) \div GcdOf[a, b]
LCM(a, b) == LcmOf[a, b]

Min(a, b) == IF a < b THEN a ELSE b

\* the integer square root, by bisection between lo and hi
Bisect[n \in Nat, lo \in Nat, hi \in Nat] ==
    IF lo >= hi THEN lo
    ELSE IF ((lo + hi + 1) \div 2) * ((lo + hi + 1) \div 2) <= n
         THEN Bisect[n, (lo + hi + 1) \div 2, hi]
         ELSE Bisect[n, lo, ((lo + hi + 1) \div 2) - 1]
ISqrt(n) == Bisect[n, 0, Min(n, 46340)]
IsSquare(n) == ISqrt(n) * ISqrt(n) = n

\* the exact quotient a / b (b > 0) as a cell: an integer cell when it is
\* whole, a reduced fraction otherwise
Frac(a, b) ==
    Bind(GCD(Abs(a), b), LAMBDA g :
        IF b \div g = 1 THEN Num(a \div g)
        ELSE [t |-> "frac", num |-> a \div g, den |-> b \div g])

\* Every finite cell is a real number s * sqrt(a / b) with s its sign.
\* Surd(x) gives <<s, a, b>> with a / b reduced.
Surd(x) ==
    CASE x.t = "num"  -> <<Sign(x.v), x.v * x.v, 1>>
      [] x.t = "frac" -> <<Sign(x.num), x.num * x.num, x.den * x.den>>
      [] x.t = "z"    -> <<x.s, x.a, x.b>>

\* the cell for s * sqrt(a / b), b > 0: a rational number is an integer or a
\* fraction cell, any other number keeps its sign and its reduced square
Real(s, a, b) ==
    Bind(GCD(a, b), LAMBDA g :
        IF IsSquare(a \div g) /\ IsSquare(b \div g)
        THEN Frac(s * ISqrt(a \div g), ISqrt(b \div g))
        ELSE [t |-> "z", s |-> s, a |-> a \div g, b |-> b \div g])

IsFinite(x) == x.t \in {"num", "frac", "z"}

\* the set of indices of a sequence
Idx(s) == 1..Len(s)
Range(s) == {s[i] : i \in Idx(s)}

RECURSIVE SumSeq(_)
SumSeq(s) == IF s = <<>> THEN 0 ELSE Head(s) + SumSeq(Tail(s))

\* the sequences over S of length at most n
SeqUpTo(S, n) == UNION {[1..k -> S] : k \in 0..n}

-----------------------------------------------------------------------------
(* Tables                                                                  *)

Table(cols, rows) == [cols |-> cols, rows |-> rows]
ColSet(T) == Range(T.cols)
NRows(T) == Len(T.rows)

\* DataFrame.drop(columns=drop)
DropColumns(T, drop) ==
    Bind(SelectSeq(T.cols, LAMBDA c : c \notin drop), LAMBDA keep :
        Table(keep, [i \in Idx(T.rows) |-> [c \in Range(keep) |-> T.rows[i][c]]]))

\* the non-missing cells of column c, in row order
NonMissing(T, c) ==
    SelectSeq([i \in Idx(T.rows) |-> T.rows[i][c]], LAMBDA x : x # NaN)

\* Series.isna().sum()
NaCount(T, c) == Cardinality({i \in Idx(T.rows) : T.rows[i][c] = NaN})
\* Series.unique().size : a missing value counts as one value
UniqueSize(T, c) == Cardinality({T.rows[i][c] : i \in Idx(T.rows)})
\* Series.nunique() : missing values are not counted
NUnique(T, c) == Cardinality({T.rows[i][c] : i \in Idx(T.rows)} \ {NaN})

-----------------------------------------------------------------------------
(* DataPreparer: src/PrepareData.py                                        *)

\* the instance attributes __init__ assigns (lines 63-72)
instance_attributes ==
    {"train", "path", "save_to_excel", "colstonotconsider", "data_home_team",
     "data_home_players", "data_away_team", "data_away_players", "data_match",
     "data"}

\* the default of colstonotconsider (line 62)
default_colstonotconsider == {"TEAM_NAME", "LEAGUE", "PLAYER_NAME", "POSITION"}

\* lines 101-104: remove_columns on one frame: each listed column is dropped
\* if the frame has it
remove_columns(T, cols) == DropColumns(T, cols \cap ColSet(T))

\* line 125: data.rename(columns = {col : prefix + col ...}): every column
\* but ID gets the prefix; the cells move to the new names
AddPrefix(T, prefix) ==
    Table([k \in Idx(T.cols) |->
              IF T.cols[k] # "ID" THEN prefix \o T.cols[k] ELSE T.cols[k]],
          [i \in Idx(T.rows) |->
              [n \in {IF c # "ID" THEN prefix \o c ELSE c : c \in ColSet(T)} |->
                  T.rows[i][CHOOSE c \in ColSet(T) :
                               (IF c # "ID" THEN prefix \o c ELSE c) = n]]])

\* line 127: every column but ID gets the suffix
AddSuffix(T, suffix) ==
    Table([k \in Idx(T.cols) |->
              IF T.cols[k] # "ID" THEN T.cols[k] \o suffix ELSE T.cols[k]],
          [i \in Idx(T.rows) |->
              [n \in {IF c # "ID" THEN c \o suffix ELSE c : c \in ColSet(T)} |->
                  T.rows[i][CHOOSE c \in ColSet(T) :
                               (IF c # "ID" THEN c \o suffix ELSE c) = n]]])

\* lines 124-128: rename_columns: the prefix, then the suffix; an empty
\* string changes nothing
rename_columns(T, prefix, suffix) ==
    Bind(IF prefix # "" THEN AddPrefix(T, prefix) ELSE T, LAMBDA T1 :
         IF suffix # "" THEN AddSuffix(T1, suffix) ELSE T1)

\* Python truth of a cell: a number is truthy unless it is zero, NaN is truthy
Truthy(x) == x = NaN \/ x.v # 0
\* x > 0: False for NaN
Positive(x) == x # NaN /\ x.v > 0

\* a variant of the lambda of line 165 that looks at DRAW first
derive_target_draw_first(x) ==
    IF Truthy(x["DRAW"]) THEN 1 ELSE IF Positive(x["HOME_WINS"]) THEN 0 ELSE 2

\* line 165: the lambda that labels one outcome row
derive_target(x) ==
    IF Positive(x["HOME_WINS"]) THEN 0 ELSE IF Truthy(x["DRAW"]) THEN 1 ELSE 2

\* lines 165-166: the label of every row goes to the new column results and
\* the three indicator columns are dropped
label_matches(T) ==
    DropColumns(
        Table(T.cols \o <<"results">>,
              [i \in Idx(T.rows) |->
                  [c \in ColSet(T) \cup {"results"} |->
                      IF c = "results" THEN Num(derive_target(T.rows[i]))
                      ELSE T.rows[i][c]]]),
        {"HOME_WINS", "DRAW", "AWAY_WINS"})

\* the elements of a finite set of integers in increasing order
RECURSIVE SortedSeq(_)
SortedSeq(S) ==
    IF S = {} THEN <<>>
    ELSE Bind(CHOOSE m \in S : \A x \in S : m <= x, LAMBDA m :
            <<m>> \o SortedSeq(S \ {m}))

\* the keys of groupby("ID"): the distinct IDs, sorted; a missing ID forms no
\* group
GroupKeys(T) ==
    SortedSeq({T.rows[i]["ID"].v : i \in {j \in Idx(T.rows) : T.rows[j]["ID"] # NaN}})

\* the non-missing values of column c in the rows of group id, in row order
GroupValues(T, id, c) ==
    Bind(SelectSeq(T.rows, LAMBDA r : r["ID"] = Num(id) /\ r[c] # NaN), LAMBDA rs :
        [k \in Idx(rs) |-> rs[k][c].v])

\* the k-th smallest element of a non-empty sequence of integers
KthSmallest(v, k) ==
    CHOOSE x \in Range(v) :
        /\ Cardinality({i \in Idx(v) : v[i] < x}) < k
        /\ Cardinality({i \in Idx(v) : v[i] <= x}) >= k

\* the group statistics of lines 146-154; missing values are skipped, and a
\* group with no value has sum 0 and every other statistic NaN
Sum(v) == Num(SumSeq(v))
Max(v) == IF v = <<>> THEN NaN ELSE Num(KthSmallest(v, Len(v)))
Minimum(v) == IF v = <<>> THEN NaN ELSE Num(KthSmallest(v, 1))
Mean(v) == IF v = <<>> THEN NaN ELSE Frac(SumSeq(v), Len(v))

\* a variant of the median that takes the lower middle value of a group of
\* even size instead of the mean of the two middle values
MedianLower(v) ==
    IF v = <<>> THEN NaN
    ELSE Num(KthSmallest(v, (Len(v) + 1) \div 2))

\* line 154: the median; for a group of even size the mean of the two middle
\* values
Median(v) ==
    IF v = <<>> THEN NaN
    ELSE IF Len(v) % 2 = 1 THEN Num(KthSmallest(v, (Len(v) + 1) \div 2))
    ELSE Frac(KthSmallest(v, Len(v) \div 2) + KthSmallest(v, Len(v) \div 2 + 1), 2)

\* the statistic named stat of the values v of one group
Statistic(stat, v) ==
    CASE stat = "sum" -> Sum(v)
      [] stat = "max" -> Max(v)
      [] stat = "min" -> Minimum(v)
      [] stat = "mean" -> Mean(v)
      [] stat = "median" -> Median(v)

\* data.groupby("ID").<stat>(): one row per key, one column per column of
\* data other than ID; ID, the index of the result, is kept as a column
GroupBy(T, stat) ==
    Bind(GroupKeys(T), LAMBDA keys :
        Table(T.cols,
              [k \in Idx(keys) |->
                  [c \in ColSet(T) |->
                      IF c = "ID" THEN Num(keys[k])
                      ELSE Statistic(stat, GroupValues(T, keys[k], c))]]))

\* pd.concat(frames, axis=1) of frames that have the same index: the columns
\* of the frames side by side
RECURSIVE ConcatColumns(_)
ConcatColumns(frames) ==
    IF Len(frames) = 1 THEN Head(frames)
    ELSE Bind(ConcatColumns(Tail(frames)), LAMBDA rest :
         Bind(Head(frames), LAMBDA first :
            Table(first.cols \o SelectSeq(rest.cols, LAMBDA c : c # "ID"),
                  [i \in Idx(first.rows) |->
                      [c \in ColSet(first) \cup ColSet(rest) |->
                          IF c \in ColSet(first) THEN first.rows[i][c]
                          ELSE rest.rows[i][c]]])))

\* lines 146-156: prepare_player_data; its parameter prefix is not used
prepare_player_data(T, prefix) ==
    ConcatColumns(<<
        rename_columns(GroupBy(T, "sum"), "", "_SUM"),
        rename_columns(GroupBy(T, "max"), "", "_MAX"),
        rename_columns(GroupBy(T, "min"), "", "_MIN"),
        rename_columns(GroupBy(T, "mean"), "", "_MEAN"),
        rename_columns(GroupBy(T, "median"), "", "_MEDIAN") >>)

\* pd.merge(left, right, on="ID", how="left"): every row of left, in order,
\* once for each row of right with its ID, and once with the columns of
\* right missing when right has no such row
RECURSIVE MergeRows(_, _, _)
MergeRows(lrows, R, cols) ==
    IF lrows = <<>> THEN <<>>
    ELSE Bind(Head(lrows), LAMBDA l :
         Bind(SelectSeq(R.rows, LAMBDA r : r["ID"] = l["ID"]), LAMBDA ms :
            (IF ms = <<>>
             THEN << [c \in cols |-> IF c \in DOMAIN l THEN l[c] ELSE NaN] >>
             ELSE [k \in Idx(ms) |->
                      [c \in cols |-> IF c \in DOMAIN l THEN l[c] ELSE ms[k][c]]])
            \o MergeRows(Tail(lrows), R, cols)))

merge_left(L, R) ==
    Table(L.cols \o SelectSeq(R.cols, LAMBDA c : c # "ID"),
          MergeRows(L.rows, R, ColSet(L) \cup ColSet(R)))

\* lines 164-183 of prepare_data, for a value m of self.mode, on the frames
\* remove_columns left: the outcome, home team, away team, home player and
\* away player tables
build(m, match, ht, at, hp, ap) ==
    Bind(IF m = "train" THEN label_matches(match) ELSE match, LAMBDA labelled :
    Bind(rename_columns(ht, "HOME_", ""), LAMBDA home_team :
    Bind(rename_columns(at, "AWAY_", ""), LAMBDA away_team :
    Bind(rename_columns(hp, "HOME_PLAYERS_", ""), LAMBDA home_players :
    Bind(rename_columns(ap, "AWAY_PLAYERS_", ""), LAMBDA away_players :
    Bind(prepare_player_data(home_players, "HOME_PLAYERS_"), LAMBDA hpp :
    Bind(prepare_player_data(away_players, "AWAY_PLAYERS_"), LAMBDA app :
    Bind(IF m = "train" THEN merge_left(labelled, home_team) ELSE home_team, LAMBDA start :
        [data_match |-> labelled, data_home_team |-> home_team,
         data_away_team |-> away_team, data_home_players |-> home_players,
         data_away_players |-> away_players,
         data |-> merge_left(merge_left(merge_left(start, away_team), hpp), app)
        ]))))))))

\* lines 158-183: prepare_data.  remove_columns changes the four frames in
\* place; line 164 then reads self.mode, which is not an attribute __init__
\* assigns (it assigns train), so the read raises AttributeError and the
\* method ends there.
prepare_data_call ==
    /\ ppc = "constructed"
    /\ \E ht \in {remove_columns(data_home_team, colstonotconsider)},
          hp \in {remove_columns(data_home_players, colstonotconsider)},
          at \in {remove_columns(data_away_team, colstonotconsider)},
          ap \in {remove_columns(data_away_players, colstonotconsider)} :
          IF "mode" \notin instance_attributes
          THEN /\ ppc' = "AttributeError"
               /\ data_home_team' = ht
               /\ data_home_players' = hp
               /\ data_away_team' = at
               /\ data_away_players' = ap
               /\ UNCHANGED <<data_match, data>>
          ELSE \E m \in {"train", "test"} :
               \E b \in {build(m, data_match, ht, at, hp, ap)} :
                  /\ ppc' = "prepared"
                  /\ data_home_team' = b.data_home_team
                  /\ data_home_players' = b.data_home_players
                  /\ data_away_team' = b.data_away_team
                  /\ data_away_players' = b.data_away_players
                  /\ data_match' = b.data_match
                  /\ data' = b.data
    /\ UNCHANGED <<mode_train, colstonotconsider, y_train, players_prepared>>
    /\ UNCHANGED svars

-----------------------------------------------------------------------------
(* DataScaler: src/GetData.py                                              *)

\* DataScaler.target_column, set in __init__
target_column == "results"

\* threshold = 0.2, kept exact as threshold_num / threshold_den
threshold_num == 1
threshold_den == 5

Ok(T) == [status |-> "ok", data |-> T]
Raised(e, T) == [status |-> e, data |-> T]

\* line 84: the columns other than the target and "ID" whose unique() has
\* more than one element, in column order
select_feature_columns(T) ==
    SelectSeq(T.cols, LAMBDA c : c # target_column /\ c # "ID" /\ UniqueSize(T, c) > 1)

\* a variant of the comparison of line 89 with >= in place of >
IsSparseInclusive(T, c) ==
    NRows(T) > 0 /\ threshold_den * NaCount(T, c) >= threshold_num * NRows(T)

\* lines 88-89: empty_data[c] > threshold, where empty_data[c] is
\* isna().sum() / len(data); with no rows the quotient is NaN and the
\* comparison is False
IsSparse(T, c) ==
    NRows(T) > 0 /\ threshold_den * NaCount(T, c) > threshold_num * NRows(T)

\* lines 86-91: the sparsity pass.  The message of line 90 divides by the
\* number of columns with Python's /, which raises ZeroDivisionError when the
\* table has no column
drop_sparse_columns(T) ==
    IF Len(T.cols) = 0 THEN Raised("ZeroDivisionError", T)
    ELSE Ok(DropColumns(T, {c \in ColSet(T) : IsSparse(T, c)}))

\* a variant of line 94 that counts the missing value as a value
IsConstantCountingMissing(T, c) == UniqueSize(T, c) = 1

\* lines 94-95: nunique() == 1
IsConstant(T, c) == NUnique(T, c) = 1

\* lines 93-97: the constant-column pass; line 96 divides by the number of
\* columns left after the sparsity pass
drop_constant_columns(T) ==
    IF Len(T.cols) = 0 THEN Raised("ZeroDivisionError", T)
    ELSE Ok(DropColumns(T, {c \in ColSet(T) : IsConstant(T, c)}))

\* line 100: keep the feature columns that are still columns of the table
update_feature_columns(fc, T) == SelectSeq(fc, LAMBDA c : c \in ColSet(T))

\* lines 103-105: dropna(how="any"); line 105 divides by the number of rows n
\* the table had before the drop
drop_incomplete_rows(T) ==
    IF NRows(T) = 0 THEN Raised("ZeroDivisionError", T)
    ELSE Ok(Table(T.cols,
                  SelectSeq(T.rows, LAMBDA r : \A c \in ColSet(T) : r[c] # NaN)))

RECURSIVE LcmSeq(_)
LcmSeq(s) == IF s = <<>> THEN 1 ELSE LCM(Head(s), LcmSeq(Tail(s)))
RECURSIVE GcdSeq(_)
GcdSeq(s) == IF s = <<>> THEN 0 ELSE GCD(Head(s), GcdSeq(Tail(s)))

\* What Series.mean() and Series.std() of column c are computed from.  The
\* n non-missing cells are written e[i] * sqrt(G / L) with integers e[i];
\* D is the sum of the e[i] and E the sum of their squares, so that
\*     mean = (D / n) * sqrt(G / L)                       (NaN when n = 0)
\*     std  = sqrt((G / L) * (n*E - D*D) / (n*(n-1)))     (NaN when n < 2)
\* finite is FALSE when the column holds an infinity: its std is then NaN.
StatsOfCells(v) ==
    Bind(\A i \in Idx(v) : IsFinite(v[i]), LAMBDA ok :
    Bind([i \in Idx(v) |-> IF ok THEN Surd(v[i]) ELSE <<0, 0, 1>>], LAMBDA sd :
    Bind(LcmSeq([i \in Idx(v) |-> sd[i][3]]), LAMBDA L :
    Bind([i \in Idx(v) |-> sd[i][2] * (L \div sd[i][3])], LAMBDA A :
    Bind(GcdSeq(A), LAMBDA G :
    Bind([i \in Idx(v) |-> IF G = 0 THEN 0 ELSE sd[i][1] * ISqrt(A[i] \div G)], LAMBDA e :
        [n |-> Len(v), finite |-> ok, G |-> G, L |-> L,
         D |-> SumSeq(e), E |-> SumSeq([i \in Idx(v) |-> e[i] * e[i]])]))))))

ColStats(T, c) == Bind(NonMissing(T, c), LAMBDA v : StatsOfCells(v))

\* n*E - D*D: zero exactly when the std of the column is zero
Spread(st) == st.n * st.E - st.D * st.D

\* (x - mean) / std for one cell, exactly (lines 65).  A missing x, a NaN
\* mean or a NaN std give NaN; a zero std gives NaN for 0/0 and an infinity
\* otherwise.  With x = (rn / rd) * sqrt(G / L) the quotient is
\*     (rn*n - D*rd) / (rd * sqrt(n * W / (n-1))),   W = n*E - D*D.
ScaleCell(x, st) ==
    IF x = NaN \/ st.n < 2 \/ ~st.finite \/ ~IsFinite(x) THEN NaN
    ELSE IF st.G = 0
    \* the column is all zeros: mean 0, std 0
    THEN IF Surd(x)[1] = 0 THEN NaN ELSE [t |-> "inf", s |-> Surd(x)[1]]
    ELSE
    Bind(Spread(st), LAMBDA W :
    Bind(Surd(x), LAMBDA sx :
    \* x*x / (G/L) = r2n / r2d, reduced
    Bind(GCD(sx[2] * st.L, sx[3] * st.G), LAMBDA g :
    Bind((sx[2] * st.L) \div g, LAMBDA r2n :
    Bind((sx[3] * st.G) \div g, LAMBDA r2d :
        IF IsSquare(r2n) /\ IsSquare(r2d)
        THEN Bind(sx[1] * ISqrt(r2n), LAMBDA rn :
             Bind(ISqrt(r2d), LAMBDA rd :
             Bind(rn * st.n - st.D * rd, LAMBDA d :
                IF W = 0
                THEN IF d = 0 THEN NaN ELSE [t |-> "inf", s |-> Sign(d)]
                ELSE Real(Sign(d), d * d * (st.n - 1), rd * rd * st.n * W))))
        ELSE IF st.D = 0 /\ W # 0
        THEN Real(sx[1], r2n * st.n * (st.n - 1), r2d * W)
        \* x and the mean have no common unit: the difference is kept as
        \* written
        ELSE [t |-> "expr", x |-> x, ref |-> st])))))

\* lines 64-66: scale_data.  Column col of data is replaced using the mean
\* and std of column col of train_data.  Each column is computed from its own
\* column of train_data only, so when data and train_data are the same frame
\* (line 108) assigning the columns one after the other gives the same
\* result as computing them all from the frame as it was.  A column that is
\* missing from either frame raises KeyError.
scale_data(T, fc, ref) ==
    IF \E c \in Range(fc) : c \notin ColSet(T) \/ c \notin ColSet(ref)
    THEN Raised("KeyError", T)
    ELSE Bind([c \in Range(fc) |-> ColStats(ref, c)], LAMBDA st :
            Ok(Table(T.cols,
                [i \in Idx(T.rows) |->
                    [c \in ColSet(T) |->
                        IF c \in Range(fc) THEN ScaleCell(T.rows[i][c], st[c])
                        ELSE T.rows[i][c]]])))

\* lines 84-108 of prepare_data, stage by stage, on the table T that
\* load_data read: the feature columns of line 84 (fc0), the sparsity pass
\* (s1), the constant-column pass (s2), the feature columns of line 100
\* (fc1), the row drop (s3) and the scaling of the table by itself (s4)
prepare_stages(T) ==
    Bind(select_feature_columns(T), LAMBDA fc0 :
    Bind(drop_sparse_columns(T), LAMBDA s1 :
    Bind(drop_constant_columns(s1.data), LAMBDA s2 :
    Bind(update_feature_columns(fc0, s2.data), LAMBDA fc1 :
    Bind(drop_incomplete_rows(s2.data), LAMBDA s3 :
    Bind(scale_data(s3.data, fc1, s3.data), LAMBDA s4 :
        [fc0 |-> fc0, s1 |-> s1, s2 |-> s2, fc1 |-> fc1, s3 |-> s3, s4 |-> s4]))))))

\* lines 77-108: prepare_data.  The result holds self.data and
\* self.feature_columns as they are when the method returns or raises.
prepare_data(T) ==
    Bind(prepare_stages(T), LAMBDA st :
        IF st.s1.status # "ok"
        THEN [status |-> st.s1.status, data |-> st.s1.data, feature_columns |-> st.fc0]
        ELSE IF st.s2.status # "ok"
        THEN [status |-> st.s2.status, data |-> st.s2.data, feature_columns |-> st.fc0]
        ELSE IF st.s3.status # "ok"
        THEN [status |-> st.s3.status, data |-> st.s3.data, feature_columns |-> st.fc1]
        ELSE [status |-> st.s4.status, data |-> st.s4.data, feature_columns |-> st.fc1])

\* lines 72-75: load_data reads the file chosen by self.train
load_data(tr, ftrain, ftest) == IF tr THEN ftrain ELSE ftest

\* a variant of get_data without the reload of line 125: outside training
\* it scales the cleaned table that prepare_data left in self.data
get_data_result_no_reload(tr, ftrain, ftest) ==
    Bind(prepare_data(load_data(tr, ftrain, ftest)), LAMBDA p :
        IF p.status # "ok"
        THEN [status |-> p.status, data |-> p.data,
              feature_columns |-> p.feature_columns, train_data |-> None]
        ELSE IF tr
        THEN [status |-> "done", data |-> p.data,
              feature_columns |-> p.feature_columns, train_data |-> None]
        ELSE Bind(scale_data(p.data, p.feature_columns, p.data), LAMBDA s :
                [status |-> IF s.status = "ok" THEN "done" ELSE s.status,
                 data |-> s.data,
                 feature_columns |-> p.feature_columns, train_data |-> p.data]))

\* lines 110-129: what get_data computes from the flag and the two files:
\* its outcome, self.data, self.feature_columns and the reference table
\* train_data of line 124 (None where the method does not set it).
\* prepare_data calls load_data, which reads the file chosen by self.train.
get_data_result(tr, ftrain, ftest) ==
    Bind(prepare_data(load_data(tr, ftrain, ftest)), LAMBDA p :
        IF p.status # "ok"
        THEN [status |-> p.status, data |-> p.data,
              feature_columns |-> p.feature_columns, train_data |-> None]
        ELSE IF tr
        THEN [status |-> "done", data |-> p.data,
              feature_columns |-> p.feature_columns, train_data |-> None]
        ELSE Bind(scale_data(ftest, p.feature_columns, p.data), LAMBDA s :
                [status |-> IF s.status = "ok" THEN "done" ELSE s.status,
                 data |-> s.data,
                 feature_columns |-> p.feature_columns, train_data |-> p.data]))

\* lines 110-129: get_data
get_data ==
    /\ spc = "start"
    /\ \E r \in {get_data_result(train, prepared_data_train, prepared_data_test)} :
          /\ spc' = r.status
          /\ sdata' = r.data
          /\ feature_columns' = r.feature_columns
          /\ train_data' = r.train_data
    /\ UNCHANGED <<prepared_data_train, prepared_data_test, train>>
    /\ UNCHANGED pvars

(* the column-cleaning stages of prepare_data, one step each, applied to the *)
(* loaded table and then once more to their own result                      *)

\* line 82
LoadData ==
    /\ spc = "start"
    /\ sdata' = load_data(train, prepared_data_train, prepared_data_test)
    /\ spc' = "loaded"
    /\ UNCHANGED <<prepared_data_train, prepared_data_test, train,
                   feature_columns, train_data>>
    /\ UNCHANGED pvars

\* lines 86-91
DropSparseColumns ==
    /\ spc \in {"loaded", "clean1"}
    /\ \E s \in {drop_sparse_columns(sdata)} :
           /\ sdata' = s.data
           /\ spc' = IF s.status # "ok" THEN s.status
                     ELSE IF spc = "loaded" THEN "sparse1" ELSE "sparse2"
    /\ UNCHANGED <<prepared_data_train, prepared_data_test, train,
                   feature_columns, train_data>>
    /\ UNCHANGED pvars

\* lines 93-97
DropConstantColumns ==
    /\ spc \in {"sparse1", "sparse2"}
    /\ \E s \in {drop_constant_columns(sdata)} :
           /\ sdata' = s.data
           /\ spc' = IF s.status # "ok" THEN s.status
                     ELSE IF spc = "sparse1" THEN "clean1" ELSE "clean2"
    /\ UNCHANGED <<prepared_data_train, prepared_data_test, train,
                   feature_columns, train_data>>
    /\ UNCHANGED pvars

-----------------------------------------------------------------------------
(* Inputs of the DataScaler: the two persisted tables                      *)

\* the rows of a persisted table are drawn from these
RowKinds ==
    << [ f1 |-> Num(1), f2 |-> Num(1), results |-> Num(0) ],
       [ f1 |-> Num(2), f2 |-> Num(1), results |-> Num(1) ],
       [ f1 |-> Num(1), f2 |-> Num(2), results |-> Num(2) ],
       [ f1 |-> Num(2), f2 |-> NaN,    results |-> Num(0) ],
       [ f1 |-> NaN,    f2 |-> Num(1), results |-> Num(2) ] >>

\* most rows of a table in the runs of get_data and of the cleaning stages
MaxRows == 5
\* most rows of the other test tables a run is compared with
MaxOtherRows == 2

\* a prepared training table: ID, the target and the features
TrainTable(s) ==
    Table(<<"ID", "results", "f1", "f2">>,
          [i \in Idx(s) |-> [ID |-> Num(i), results |-> s[i].results,
                             f1 |-> s[i].f1, f2 |-> s[i].f2]])
\* a prepared test table: no target column
TestTable(s) ==
    Table(<<"ID", "f1", "f2">>,
          [i \in Idx(s) |-> [ID |-> Num(i), f1 |-> s[i].f1, f2 |-> s[i].f2]])

\* the table of the file a run does not vary
FixedRows == <<RowKinds[1], RowKinds[2], RowKinds[3]>>

PreparerIdle ==
    /\ mode_train = None /\ colstonotconsider = None
    /\ data_home_team = None /\ data_home_players = None
    /\ data_away_team = None /\ data_away_players = None
    /\ data_match = None /\ y_train = None /\ data = None
    /\ players_prepared = None
    /\ ppc = "idle"

\* DataScaler(train) after __init__ (lines 40-43)
ScalerConstructed(tr) ==
    /\ train = tr
    /\ sdata = None
    /\ feature_columns = None
    /\ train_data = None
    /\ spc = "start"

\* a DataScaler in either mode; the table its load_data reads varies
InitScaler ==
    /\ PreparerIdle
    /\ \E tr \in BOOLEAN, s \in SeqUpTo(Range(RowKinds), MaxRows) :
          /\ ScalerConstructed(tr)
          /\ prepared_data_train = TrainTable(IF tr THEN s ELSE FixedRows)
          /\ prepared_data_test = TestTable(IF tr THEN FixedRows ELSE s)

NextScaler == get_data

SpecScaler == InitScaler /\ [][NextScaler]_vars

\* the cleaning stages on a training table
InitClean ==
    /\ PreparerIdle
    /\ \E s \in SeqUpTo(Range(RowKinds), MaxRows) :
          /\ ScalerConstructed(TRUE)
          /\ prepared_data_train = TrainTable(s)
          /\ prepared_data_test = TestTable(FixedRows)

NextClean == LoadData \/ DropSparseColumns \/ DropConstantColumns

SpecClean == InitClean /\ [][NextClean]_vars

-----------------------------------------------------------------------------
(* Inputs and runs of the DataPreparer                                     *)

ScalerIdle ==
    /\ prepared_data_train = None /\ prepared_data_test = None
    /\ train = None /\ sdata = None /\ feature_columns = None
    /\ train_data = None /\ spc = "idle"

Str(v) == [t |-> "str", v |-> v]

\* most matches of an input of prepare_data
MaxMatches == 2
\* most rows of the outcome table handed to the labelling
MaxOutcomeRows == 2
\* most rows of the player table handed to the aggregation
MaxPlayerRows == 3

\* the values of an indicator in y_train.csv: the flags 0 and 1 and, for a
\* file that is not clean, a negative or a missing home-win value and a
\* missing draw value
Flags == {Num(0), Num(1)}
Indicators ==
    [HOME_WINS : Flags \cup {Num(-1), NaN}, DRAW : Flags \cup {NaN}, AWAY_WINS : Flags]
OneHot ==
    {x \in [HOME_WINS : Flags, DRAW : Flags, AWAY_WINS : Flags] :
        Cardinality({c \in {"HOME_WINS", "DRAW", "AWAY_WINS"} : x[c] = Num(1)}) = 1}

\* y_train.csv with one row per match, o[i] the indicators of match i
OutcomeTable(o) ==
    Table(<<"ID", "HOME_WINS", "DRAW", "AWAY_WINS">>,
          [i \in Idx(o) |-> [ID |-> Num(i), HOME_WINS |-> o[i].HOME_WINS,
                             DRAW |-> o[i].DRAW, AWAY_WINS |-> o[i].AWAY_WINS]])

\* a team statistics file with one row for each match of the set ids
TeamTable(ids) ==
    Bind(SortedSeq(ids), LAMBDA sq :
        Table(<<"ID", "TEAM_NAME", "SHOTS">>,
              [i \in Idx(sq) |-> [ID |-> Num(sq[i]), TEAM_NAME |-> Str("T"),
                                  SHOTS |-> Num(sq[i] + 1)]]))

\* a player statistics file with n[i] player rows for match i
RECURSIVE PlayerRowsOf(_, _)
PlayerRowsOf(n, i) ==
    IF i > Len(n) THEN <<>>
    ELSE [j \in 1..n[i] |-> [ID |-> Num(i), PLAYER_NAME |-> Str("P"),
                             GOALS |-> Num(j + 1)]]
         \o PlayerRowsOf(n, i + 1)
PlayerTable(n) == Table(<<"ID", "PLAYER_NAME", "GOALS">>, PlayerRowsOf(n, 1))

\* DataPreparer(path, train) after __init__ (lines 61-73): load_data has read
\* the four statistics files and, in training mode, the outcome file
InitPreparer ==
    /\ ScalerIdle
    /\ \E tr \in BOOLEAN, k \in 1..MaxMatches :
       \E o \in [1..k -> OneHot], H \in SUBSET (1..k), A \in SUBSET (1..k),
          n \in [1..k -> 0..2] :
          /\ mode_train = tr
          /\ colstonotconsider = default_colstonotconsider
          /\ y_train = IF tr THEN OutcomeTable(o) ELSE None
          /\ data_match = IF tr THEN OutcomeTable(o) ELSE None
          /\ data_home_team = TeamTable(H)
          /\ data_away_team = TeamTable(A)
          /\ data_home_players = PlayerTable(n)
          /\ data_away_players = PlayerTable([i \in 1..k |-> 1])
    /\ data = None
    /\ players_prepared = None
    /\ ppc = "constructed"

NextPreparer == prepare_data_call

SpecPreparer == InitPreparer /\ [][NextPreparer]_vars

(* the labelling of the outcome rows on its own *)

InitTarget ==
    /\ ScalerIdle
    /\ \E o \in SeqUpTo(Indicators, MaxOutcomeRows) :
          /\ y_train = OutcomeTable(o)
          /\ data_match = OutcomeTable(o)
    /\ mode_train = TRUE
    /\ colstonotconsider = default_colstonotconsider
    /\ data_home_team = None /\ data_home_players = None
    /\ data_away_team = None /\ data_away_players = None
    /\ data = None /\ players_prepared = None
    /\ ppc = "outcomes"

\* lines 165-166
LabelMatches ==
    /\ ppc = "outcomes"
    /\ data_match' = label_matches(data_match)
    /\ ppc' = "labelled"
    /\ UNCHANGED <<mode_train, colstonotconsider, data_home_team, data_home_players,
                   data_away_team, data_away_players, y_train, data, players_prepared>>
    /\ UNCHANGED svars

NextTarget == LabelMatches

SpecTarget == InitTarget /\ [][NextTarget]_vars

(* the aggregation of one player table on its own *)

\* the rows of a player table once remove_columns has run
PlayerRowKinds ==
    [ID : {Num(1), Num(2)}, GOALS : {NaN, Num(2), Num(3)}, ASSISTS : {Num(0), Num(1)}]

PlayersInput(rows) == Table(<<"ID", "GOALS", "ASSISTS">>, rows)

InitPlayers ==
    /\ ScalerIdle
    /\ \E home \in BOOLEAN, rows \in SeqUpTo(PlayerRowKinds, MaxPlayerRows) :
          /\ data_home_players = IF home THEN PlayersInput(rows) ELSE None
          /\ data_away_players = IF home THEN None ELSE PlayersInput(rows)
    /\ mode_train = TRUE
    /\ colstonotconsider = default_colstonotconsider
    /\ data_home_team = None /\ data_away_team = None
    /\ data_match = None /\ y_train = None
    /\ data = None /\ players_prepared = None
    /\ ppc = "players"

\* lines 170 and 173: the home player table is given its prefix, in place,
\* and aggregated
AggregateHomePlayers ==
    /\ ppc = "players"
    /\ data_home_players # None
    /\ \E T \in {rename_columns(data_home_players, "HOME_PLAYERS_", "")} :
          /\ data_home_players' = T
          /\ players_prepared' = prepare_player_data(T, "HOME_PLAYERS_")
    /\ ppc' = "aggregated"
    /\ UNCHANGED <<mode_train, colstonotconsider, data_home_team, data_away_team,
                   data_away_players, data_match, y_train, data>>
    /\ UNCHANGED svars

\* lines 171 and 174: the same for the away player table
AggregateAwayPlayers ==
    /\ ppc = "players"
    /\ data_away_players # None
    /\ \E T \in {rename_columns(data_away_players, "AWAY_PLAYERS_", "")} :
          /\ data_away_players' = T
          /\ players_prepared' = prepare_player_data(T, "AWAY_PLAYERS_")
    /\ ppc' = "aggregated"
    /\ UNCHANGED <<mode_train, colstonotconsider, data_home_team, data_away_team,
                   data_home_players, data_match, y_train, data>>
    /\ UNCHANGED svars

NextPlayers == AggregateHomePlayers \/ AggregateAwayPlayers

SpecPlayers == InitPlayers /\ [][NextPlayers]_vars

-----------------------------------------------------------------------------
(* Properties of the DataScaler                                            *)

\* the mean and the std scale_data takes from column c of a reference table
MeanStd(T, c) ==
    LET st == ColStats(T, c)
    IN  [mean |-> IF st.n = 0 \/ ~st.finite THEN NaN
                  ELSE Real(Sign(st.D), st.D * st.D * st.G, st.n * st.n * st.L),
         std  |-> IF st.n < 2 \/ ~st.finite THEN NaN
                  ELSE Real(Sign(Spread(st) * st.G), Spread(st) * st.G,
                            st.L * st.n * (st.n - 1))]

\* C1: in non-training mode the scaling parameters come from the training
\* table only: with the training table fixed, a run on any other test table
\* uses, for every column both runs scale, the same mean and the same std.
LeakageFreeScaling ==
    (spc = "done" /\ ~train) =>
        \A s2 \in SeqUpTo(Range(RowKinds), MaxOtherRows) :
            LET o == get_data_result(FALSE, prepared_data_train, TestTable(s2))
            IN  o.status = "done" =>
                    \A c \in Range(feature_columns) \cap Range(o.feature_columns) :
                        MeanStd(train_data, c) = MeanStd(o.train_data, c)

\* C7: the sparsity, constant-column and incomplete-row stages never fail:
\* get_data never ends in the ZeroDivisionError one of them raised.
CleaningStagesNeverFail == spc # "ZeroDivisionError"

\* the rows that survive drop_incomplete_rows, as scale_data receives them
\* in training mode (the scaling reference)
ScalingReference == prepare_stages(prepared_data_train).s3.data

\* C9 as stated: in training mode every feature column has more than one
\* distinct value among the rows that survive drop_incomplete_rows, and the
\* standard deviation it is scaled with is non-zero.
FeaturesVaryAmongSurvivingRows ==
    (spc = "done" /\ train) =>
        \A c \in Range(feature_columns) :
            /\ NUnique(ScalingReference, c) > 1
            /\ MeanStd(ScalingReference, c).std \notin {NaN, Num(0)}

\* C9 as the code has it: in training mode every feature column is a column
\* other than ID and the target, is still a column of the returned table and
\* has more than one distinct non-missing value among the rows of the loaded
\* table, that is before drop_incomplete_rows.
FeaturesVaryInLoadedTable ==
    (spc = "done" /\ train) =>
        \A c \in Range(feature_columns) :
            /\ c \notin {"ID", target_column}
            /\ c \in ColSet(sdata)
            /\ NUnique(prepared_data_train, c) > 1

\* a training run that dropped incomplete rows and kept a feature column
\* whose values no longer vary among the surviving rows
WitnessFeaturesVary ==
    /\ spc = "done" /\ train
    /\ NRows(sdata) < NRows(prepared_data_train)
    /\ \E c \in Range(feature_columns) : NUnique(ScalingReference, c) = 1
    /\ \E c \in Range(feature_columns) : NUnique(ScalingReference, c) > 1

\* C10: in non-training mode the returned table has the columns and the
\* rows of the persisted test table; outside the feature columns every cell
\* is as loaded, and every missing cell is still missing.
TestTableFrame ==
    (spc = "done" /\ ~train) =>
        /\ sdata.cols = prepared_data_test.cols
        /\ NRows(sdata) = NRows(prepared_data_test)
        /\ \A i \in Idx(sdata.rows) :
              /\ DOMAIN sdata.rows[i] = ColSet(prepared_data_test)
              /\ \A c \in ColSet(prepared_data_test) :
                    /\ c \notin Range(feature_columns) =>
                          sdata.rows[i][c] = prepared_data_test.rows[i][c]
                    /\ prepared_data_test.rows[i][c] = NaN => sdata.rows[i][c] = NaN

\* a non-training run on a test table with a sparse column, a missing value
\* in a feature column and a row the cleaning would have dropped
WitnessTestTableFrame ==
    /\ spc = "done" /\ ~train
    /\ Len(feature_columns) > 0
    /\ \E c \in ColSet(prepared_data_test) : IsSparse(prepared_data_test, c)
    /\ \E c \in Range(feature_columns), i \in Idx(sdata.rows) :
          prepared_data_test.rows[i][c] = NaN
    /\ NRows(train_data) < NRows(sdata)

(* the cleaning stages, in SpecClean *)

\* C6: the sparsity pass drops a column exactly when its fraction of
\* missing values is above 0.2: with m missing values in n rows the column
\* is kept when 5*m <= n and dropped when 5*m > n; the kept columns are as
\* they were.
SparseThreshold ==
    spc = "sparse1" =>
        LET T == prepared_data_train
            kept == {c \in ColSet(T) : 5 * NaCount(T, c) <= NRows(T)}
        IN  /\ ColSet(sdata) = kept
            /\ NRows(sdata) = NRows(T)
            /\ \A i \in Idx(T.rows) : \A c \in kept : sdata.rows[i][c] = T.rows[i][c]

\* the sparsity pass has kept a column with exactly a fifth of its values
\* missing and dropped another column
WitnessSparseThreshold ==
    /\ spc = "sparse1"
    /\ NRows(prepared_data_train) > 0
    /\ \E c \in ColSet(sdata) :
          5 * NaCount(prepared_data_train, c) = NRows(prepared_data_train)
    /\ ColSet(sdata) # ColSet(prepared_data_train)

\* C8: the two column passes are idempotent: applied to the result of a
\* first application they complete and return that result unchanged.
CleaningIdempotent ==
    LET s1 == drop_sparse_columns(prepared_data_train)
        s2 == drop_constant_columns(s1.data)
    IN  (s1.status = "ok" /\ s2.status = "ok") =>
            (spc \in {"sparse2", "clean2", "ZeroDivisionError"} =>
                spc # "ZeroDivisionError" /\ sdata = s2.data)

-----------------------------------------------------------------------------
(* Properties of the DataPreparer                                          *)

AggregatedInput == IF data_home_players # None THEN data_home_players ELSE data_away_players
AggregatedPrefix == IF data_home_players # None THEN "HOME_PLAYERS_" ELSE "AWAY_PLAYERS_"

\* the values of attribute a (GOALS or ASSISTS) in the player rows of match
\* id, as a set of (row, value) pairs
ValuesOf(id, a) ==
    {<<i, AggregatedInput.rows[i][AggregatedPrefix \o a].v>> :
        i \in {j \in Idx(AggregatedInput.rows) :
                  /\ AggregatedInput.rows[j]["ID"] = Num(id)
                  /\ AggregatedInput.rows[j][AggregatedPrefix \o a] # NaN}}

RECURSIVE Total(_)
Total(S) == IF S = {} THEN 0
            ELSE Bind(CHOOSE p \in S : TRUE, LAMBDA p : p[2] + Total(S \ {p}))

\* the number x / y (y > 0) as a cell is c
IsQuotient(c, x, y) ==
    \/ c.t = "num" /\ c.v * y = x
    \/ c.t = "frac" /\ c.num * y = x * c.den /\ c.den > 1 /\ GCD(Abs(c.num), c.den) = 1

\* c is the median of the values of S: half the sum of the two middle
\* values when they are even in number, the middle value otherwise
IsMedianOf(c, S) ==
    \E lo, hi \in S :
        /\ lo[2] <= hi[2]
        /\ Cardinality({p \in S : p[2] < lo[2]}) <= (Cardinality(S) - 1) \div 2
        /\ Cardinality({p \in S : p[2] <= lo[2]}) > (Cardinality(S) - 1) \div 2
        /\ Cardinality({p \in S : p[2] < hi[2]}) <= Cardinality(S) \div 2
        /\ Cardinality({p \in S : p[2] <= hi[2]}) > Cardinality(S) \div 2
        /\ IsQuotient(c, lo[2] + hi[2], 2)

CompleteInput ==
    \A i \in Idx(y_train.rows) :
        /\ Cardinality({j \in Idx(data_home_team.rows) : data_home_team.rows[j]["ID"] = Num(i)}) = 1
        /\ Cardinality({j \in Idx(data_away_team.rows) : data_away_team.rows[j]["ID"] = Num(i)}) = 1
        /\ \E j \in Idx(data_home_players.rows) : data_home_players.rows[j]["ID"] = Num(i)
        /\ \E j \in Idx(data_away_players.rows) : data_away_players.rows[j]["ID"] = Num(i)

\* C2: on a complete input, prepare_data in training mode completes, and
\* get_data in training mode on the table it built returns one row per
\* match, feature columns without ID and results, and a results column of
\* codes 0, 1 and 2.
EndToEndTraining ==
    (ppc # "constructed" /\ mode_train = TRUE /\ CompleteInput) =>
        /\ ppc = "prepared"
        /\ \E r \in {get_data_result(TRUE, data, data)} :
              /\ r.status = "done"
              /\ NRows(r.data) = NRows(y_train)
              /\ {r.data.rows[i]["ID"] : i \in Idx(r.data.rows)}
                    = {y_train.rows[i]["ID"] : i \in Idx(y_train.rows)}
              /\ "ID" \notin Range(r.feature_columns)
              /\ "results" \notin Range(r.feature_columns)
              /\ "results" \in ColSet(r.data)
              /\ \A i \in Idx(r.data.rows) :
                    r.data.rows[i]["results"] \in {Num(0), Num(1), Num(2)}

\* C4: the table prepare_data builds has a row for every row of the table
\* it starts from (the outcome table in training mode, the home-team table
\* otherwise), and exactly one when no team table repeats a match ID.
BuildKeepsStartingRows ==
    ppc # "constructed" =>
        /\ ppc = "prepared"
        /\ \E start \in {IF mode_train THEN y_train ELSE data_home_team} :
              /\ \A i \in Idx(start.rows) :
                    \E k \in Idx(data.rows) : data.rows[k]["ID"] = start.rows[i]["ID"]
              /\ NRows(data) = NRows(start)

====
